---- MODULE Spec2Model ----
(***************************************************************************)
(* The task/status lifecycle engine of jcx, in its three copies:           *)
(*   jcx/api/task/task.py         TaskDb over local tables                 *)
(*   jcx/api/task/task_db.py      TaskDb, second copy (adds task_start)    *)
(*   jcx/api/task/task_client.py  TaskClient over the REST DAO service     *)
(* and the command line tools that write Status records directly           *)
(* (jcx/bin/cx_task.py, jcx/bin/cx_dao.py).                                *)
(*                                                                         *)
(* All copies work on one Status collection and one Task collection.       *)
(* A TaskDb call runs to completion in one step.  A TaskClient or CLI      *)
(* call that reads a Status over HTTP and writes it back later takes two   *)
(* steps (GET, then PUT); other callers may run between them.              *)
(***************************************************************************)
EXTENDS Integers, FiniteSets, Sequences, TLC

\* ---------------------------------------------------------------- bounds
NumIds == 2
MaxClock == 1
\* the tasks of the end-to-end scenario (test_multiple_tasks)
NumOrder == 3

Ids == 1..NumIds
OrderIds == 1..NumOrder
\* the largest id a record may have
MaxId == IF NumOrder > NumIds THEN NumOrder ELSE NumIds
Workers == {"w1", "w2"}
\* progress arguments: below range, 0, inside, 100, above range
ProgressArgs == {-1, 0, 50, 100, 101}
\* worker identifiers passed to task_start (None or a name)
WorkerArgs == {{}, {"wk"}}

\* ---------------------------------------------------------------- TaskStatus
NOT_STARTED == 0
IN_PROGRESS == 1
COMPLETED == 2
ERROR == 3
\* task_types.py names status 0 PENDING
PENDING == 0
TaskStatus == {NOT_STARTED, IN_PROGRESS, COMPLETED, ERROR}

\* Optional values are sets: {} is None, {x} is x.
\* StatusInfo(id=i) with every field at its default.
StatusInfo ==
  [status |-> NOT_STARTED, progress |-> 0, start_time |-> {},
   update_time |-> {}, enabled |-> TRUE, worker |-> {}]

VARIABLES
  statusTab,   \* the Status collection: id -> StatusInfo, for the ids that have one
  taskTab,     \* the Task collection: the ids that have a Task record
  now,         \* the wall clock read by now_sh_dt()
  pc,          \* per caller: "idle", or the HTTP request its call makes next
  loc,         \* per caller: the id and the Status it fetched (its local copy)
  last         \* the call that returned last, and what it returned

vars == <<statusTab, taskTab, now, pc, loc, last>>

\* ---------------------------------------------------------------- record store
\* put/update: upsert of one record by id
Put(tab, i, rec) == (i :> rec) @@ tab

RECURSIVE IdsFrom(_, _)
IdsFrom(S, i) ==
  IF i > MaxId THEN <<>>
  ELSE (IF i \in S THEN <<i>> ELSE <<>>) \o IdsFrom(S, i + 1)

\* Table.records(): the ids of the records, in creation order
records(tab) == IdsFrom(DOMAIN tab, 1)

\* GET /statuses?status=<st>&enabled=true: the matching ids, in creation order
get_all(tab, st) ==
  IdsFrom({i \in DOMAIN tab : tab[i].status = st /\ tab[i].enabled}, 1)

\* the outcome of a call
Result(op, w, i, p, ov, kind, err, pre) ==
  [op |-> op, w |-> w, id |-> i, p |-> p, ov |-> ov,
   kind |-> kind, err |-> err, pre |-> pre]

IdleLoc == [id |-> 0, snap |-> StatusInfo]

\* ---------------------------------------------------------------- task.py
RECURSIVE find_from(_, _, _, _)
find_from(seq, k, tab, tasks) ==
  IF k > Len(seq) THEN [kind |-> "Null", err |-> "", id |-> 0]
  ELSE IF ~tab[seq[k]].enabled \/ tab[seq[k]].status > IN_PROGRESS
       THEN find_from(seq, k + 1, tab, tasks)
  ELSE IF seq[k] \in tasks
       THEN [kind |-> "Some", err |-> "", id |-> seq[k]]
       \* task_tab.get(status.id).unwrap() on a missing Task
       ELSE [kind |-> "Raise", err |-> "Panic", id |-> seq[k]]

\* TaskDb.find_task with the scan starting at the second record
find_task_from_second(tab, tasks) == find_from(records(tab), 2, tab, tasks)

\* TaskDb.find_task
find_task(tab, tasks) == find_from(records(tab), 1, tab, tasks)

\* TaskDb.task_error that also resets the progress
task_error_resetting(status, t) ==
  [kind |-> "Ok", err |-> "",
   rec |-> [status EXCEPT !.status = ERROR, !.update_time = {t}, !.progress = 0]]

\* TaskDb.task_error
task_error(status, t) ==
  [kind |-> "Ok", err |-> "",
   rec |-> [status EXCEPT !.status = ERROR, !.update_time = {t}]]

\* TaskDb.update_progress
update_progress(status, progress, t) ==
  IF ~(status.status < COMPLETED)
  THEN [kind |-> "Raise", err |-> "InvalidState", rec |-> status]
  ELSE IF ~(0 <= progress /\ progress <= 100)
  THEN [kind |-> "Raise", err |-> "InvalidArgument", rec |-> status]
  ELSE LET s1 == IF status.status = NOT_STARTED THEN IN_PROGRESS ELSE status.status
           s2 == IF s1 = IN_PROGRESS /\ progress = 100 THEN COMPLETED ELSE s1
       IN [kind |-> "Ok", err |-> "",
           rec |-> [status EXCEPT
                      !.status = s2,
                      !.progress = progress,
                      !.update_time = {t},
                      !.start_time = IF status.start_time = {} THEN {t}
                                     ELSE status.start_time]]

\* TaskDb.task_done reporting half of the work
task_done_half(status, t) == update_progress(status, 50, t)

\* TaskDb.task_done
task_done(status, t) == update_progress(status, 100, t)

\* ---------------------------------------------------------------- task_db.py
\* TaskDb.find_task (second copy)
db_find_task(tab, tasks) == find_from(records(tab), 1, tab, tasks)

\* TaskDb.task_start
db_task_start(status, worker, t) ==
  IF status.status = NOT_STARTED
  THEN [kind |-> "Ok", err |-> "",
        rec |-> [status EXCEPT
                   !.status = IN_PROGRESS,
                   !.start_time = {t},
                   !.update_time = {t},
                   !.worker = worker]]
  ELSE [kind |-> "Raise", err |-> "InvalidState", rec |-> status]

\* TaskDb.task_error (second copy)
db_task_error(status, t) ==
  [kind |-> "Ok", err |-> "",
   rec |-> [status EXCEPT !.status = ERROR, !.update_time = {t}]]

\* TaskDb.update_progress (second copy) with the gate `status > COMPLETED`
db_update_progress_above(status, progress, t) ==
  IF status.status > COMPLETED
  THEN [kind |-> "Raise", err |-> "InvalidState", rec |-> status]
  ELSE IF ~(0 <= progress /\ progress <= 100)
  THEN [kind |-> "Raise", err |-> "InvalidArgument", rec |-> status]
  ELSE LET s1 == IF status.status = NOT_STARTED THEN IN_PROGRESS ELSE status.status
           s2 == IF s1 = IN_PROGRESS /\ progress = 100 THEN COMPLETED ELSE s1
       IN [kind |-> "Ok", err |-> "",
           rec |-> [status EXCEPT
                      !.status = s2,
                      !.progress = progress,
                      !.update_time = {t},
                      !.start_time = IF status.start_time = {} THEN {t}
                                     ELSE status.start_time]]

\* TaskDb.update_progress (second copy)
db_update_progress(status, progress, t) ==
  IF status.status >= COMPLETED
  THEN [kind |-> "Raise", err |-> "InvalidState", rec |-> status]
  ELSE IF ~(0 <= progress /\ progress <= 100)
  THEN [kind |-> "Raise", err |-> "InvalidArgument", rec |-> status]
  ELSE LET s1 == IF status.status = NOT_STARTED THEN IN_PROGRESS ELSE status.status
           s2 == IF s1 = IN_PROGRESS /\ progress = 100 THEN COMPLETED ELSE s1
       IN [kind |-> "Ok", err |-> "",
           rec |-> [status EXCEPT
                      !.status = s2,
                      !.progress = progress,
                      !.update_time = {t},
                      !.start_time = IF status.start_time = {} THEN {t}
                                     ELSE status.start_time]]

\* TaskDb.task_done (second copy)
db_task_done(status, t) == db_update_progress(status, 100, t)

\* ---------------------------------------------------------------- task_client.py
\* TaskClient.find_task, after the GET of the Status list: `statuses` is the
\* list the service returned for {"status": PENDING, "enabled": "true"}
client_find_task(statuses, tasks) ==
  IF statuses = <<>> THEN [kind |-> "Err", err |-> "NoTask", id |-> 0]
  ELSE IF statuses[1] \in tasks
       THEN [kind |-> "Ok", err |-> "", id |-> statuses[1]]
       ELSE [kind |-> "Err", err |-> "NotFound", id |-> statuses[1]]

\* TaskClient.task_start with the two clock reads stored the other way round
client_task_start_swapped(status, t1, t2) ==
  IF status.status # PENDING
  THEN [kind |-> "Err", err |-> "InvalidState", rec |-> status]
  ELSE [kind |-> "Ok", err |-> "",
        rec |-> [status EXCEPT
                   !.status = IN_PROGRESS,
                   !.progress = 0,
                   !.start_time = {t2},
                   !.update_time = {t1}]]

\* TaskClient.task_start, after the GET: t1 and t2 are the two now_sh_dt() reads
client_task_start(status, t1, t2) ==
  IF status.status # PENDING
  THEN [kind |-> "Err", err |-> "InvalidState", rec |-> status]
  ELSE [kind |-> "Ok", err |-> "",
        rec |-> [status EXCEPT
                   !.status = IN_PROGRESS,
                   !.progress = 0,
                   !.start_time = {t1},
                   !.update_time = {t2}]]

\* TaskClient.task_error, after the GET
client_task_error(status, t) ==
  [kind |-> "Ok", err |-> "",
   rec |-> [status EXCEPT !.status = ERROR, !.update_time = {t}]]

\* TaskClient.update_progress with its range check left out
client_progress_unchecked(progress) == progress \in Int

\* TaskClient.update_progress: the range check that precedes the GET
client_progress_valid(progress) == 0 <= progress /\ progress <= 100

\* TaskClient.update_progress with the promotion at 100 tested before the
\* override
client_update_progress_promoting(status_info, progress, status, t) ==
  [kind |-> "Ok", err |-> "",
   rec |-> [status_info EXCEPT
              !.progress = progress,
              !.update_time = {t},
              !.status = IF progress = 100 /\ status_info.status # ERROR
                         THEN COMPLETED
                         ELSE IF status # {} THEN CHOOSE s \in status : TRUE
                              ELSE status_info.status]]

\* TaskClient.update_progress, after the GET; status is the optional override
client_update_progress(status_info, progress, status, t) ==
  [kind |-> "Ok", err |-> "",
   rec |-> [status_info EXCEPT
              !.progress = progress,
              !.update_time = {t},
              !.status = IF status # {} THEN CHOOSE s \in status : TRUE
                         ELSE IF progress = 100 /\ status_info.status # ERROR
                              THEN COMPLETED
                              ELSE status_info.status]]

\* ---------------------------------------------------------------- cx_dao.py
\* update_status, after the GET: each argument is optional; a status code
\* outside TaskStatus or a progress outside 0..100 ends the command
cx_dao_update_status(current_status, status, progress, enabled) ==
  IF status # {} /\ ~(status \subseteq TaskStatus)
  THEN [kind |-> "Err", err |-> "InvalidArgument", rec |-> current_status]
  ELSE IF progress # {} /\ ~(\A p \in progress : 0 <= p /\ p <= 100)
  THEN [kind |-> "Err", err |-> "InvalidArgument", rec |-> current_status]
  ELSE [kind |-> "Ok", err |-> "",
        rec |-> [current_status EXCEPT
                   !.status = IF status # {} THEN CHOOSE s \in status : TRUE ELSE @,
                   !.progress = IF progress # {} THEN CHOOSE p \in progress : TRUE ELSE @,
                   !.enabled = IF enabled # {} THEN CHOOSE e \in enabled : TRUE ELSE @]]

\* ---------------------------------------------------------------- state machine
Init ==
  /\ statusTab = <<>>
  /\ taskTab = {}
  /\ now = 0
  /\ pc = [w \in Workers |-> "idle"]
  /\ loc = [w \in Workers |-> IdleLoc]
  /\ last = Result("none", "w1", 0, 0, {}, "None", "", {})

\* no caller is between the GET and the PUT of a call
Quiet == \A w \in Workers : pc[w] = "idle"

\* the clock advances
Tick ==
  /\ now < MaxClock
  /\ now' = now + 1
  /\ UNCHANGED <<statusTab, taskTab, pc, loc, last>>

\* ---- test fixtures (tests/api/task/test_task_db.py); the test runs them
\* while no call is in progress
\* task = TestTaskInfo(id=i, ...); db.task_tab.update(task)
Fixture_put_task(i) ==
  /\ Quiet
  /\ i \notin taskTab
  /\ taskTab' = taskTab \cup {i}
  /\ UNCHANGED <<statusTab, now, pc, loc, last>>

\* status = StatusInfo(id=i); optionally status.status = IN_PROGRESS or
\* status.enabled = False; db.status_tab.update(status)
Fixture_put_status(i, st, en) ==
  /\ Quiet
  /\ i \notin DOMAIN statusTab
  /\ statusTab' = Put(statusTab, i, [StatusInfo EXCEPT !.status = st, !.enabled = en])
  /\ UNCHANGED <<taskTab, now, pc, loc, last>>

\* status = db.status_tab.get(i).unwrap(); status.enabled = True;
\* db.status_tab.update(status)
Fixture_enable(i) ==
  /\ Quiet
  /\ i \in DOMAIN statusTab
  /\ statusTab' = Put(statusTab, i, [statusTab[i] EXCEPT !.enabled = TRUE])
  /\ UNCHANGED <<taskTab, now, pc, loc, last>>

\* ---- calls that run to completion in one step
\* A TaskDb call that assigns the progress and stores the record before it
\* validates
DbCall_storing_first(op, w, i, p, r) ==
  /\ pc[w] = "idle"
  /\ IF i \in DOMAIN statusTab
     THEN /\ statusTab' = IF r.kind = "Ok" THEN Put(statusTab, i, r.rec)
                          ELSE Put(statusTab, i, [statusTab[i] EXCEPT !.progress = p])
          /\ last' = Result(op, w, i, p, {}, r.kind, r.err, {statusTab[i].status})
     ELSE /\ statusTab' = statusTab
          /\ last' = Result(op, w, i, p, {}, "Raise", "Panic", {})
  /\ UNCHANGED <<taskTab, now, pc, loc>>

\* A TaskDb call on Status i: unwrap of a missing Status panics, else the
\* outcome r is stored when the call got as far as status_tab.update/put.
DbCall(op, w, i, p, r) ==
  /\ pc[w] = "idle"
  /\ IF i \in DOMAIN statusTab
     THEN /\ statusTab' = IF r.kind = "Ok" THEN Put(statusTab, i, r.rec) ELSE statusTab
          /\ last' = Result(op, w, i, p, {}, r.kind, r.err, {statusTab[i].status})
     ELSE /\ statusTab' = statusTab
          /\ last' = Result(op, w, i, p, {}, "Raise", "Panic", {})
  /\ UNCHANGED <<taskTab, now, pc, loc>>

Task_find_task(w) ==
  /\ pc[w] = "idle"
  /\ LET r == find_task(statusTab, taskTab) IN
       last' = Result("task.find_task", w, r.id, 0, {}, r.kind, r.err,
                      IF r.id = 0 THEN {} ELSE {statusTab[r.id].status})
  /\ UNCHANGED <<statusTab, taskTab, now, pc, loc>>

Task_task_done(w, i) ==
  /\ DbCall("task.task_done", w, i, 100,
            IF i \in DOMAIN statusTab THEN task_done(statusTab[i], now) ELSE <<>>)

Task_task_error(w, i) ==
  /\ DbCall("task.task_error", w, i, 0,
            IF i \in DOMAIN statusTab THEN task_error(statusTab[i], now) ELSE <<>>)

Task_update_progress(w, i, p) ==
  /\ DbCall("task.update_progress", w, i, p,
            IF i \in DOMAIN statusTab THEN update_progress(statusTab[i], p, now) ELSE <<>>)

TaskDb_find_task(w) ==
  /\ pc[w] = "idle"
  /\ LET r == db_find_task(statusTab, taskTab) IN
       last' = Result("task_db.find_task", w, r.id, 0, {}, r.kind, r.err,
                      IF r.id = 0 THEN {} ELSE {statusTab[r.id].status})
  /\ UNCHANGED <<statusTab, taskTab, now, pc, loc>>

TaskDb_task_start(w, i, worker) ==
  /\ DbCall("task_db.task_start", w, i, 0,
            IF i \in DOMAIN statusTab THEN db_task_start(statusTab[i], worker, now) ELSE <<>>)

TaskDb_task_done(w, i) ==
  /\ DbCall("task_db.task_done", w, i, 100,
            IF i \in DOMAIN statusTab THEN db_task_done(statusTab[i], now) ELSE <<>>)

TaskDb_task_error(w, i) ==
  /\ DbCall("task_db.task_error", w, i, 0,
            IF i \in DOMAIN statusTab THEN db_task_error(statusTab[i], now) ELSE <<>>)

TaskDb_update_progress(w, i, p) ==
  /\ DbCall("task_db.update_progress", w, i, p,
            IF i \in DOMAIN statusTab THEN db_update_progress(statusTab[i], p, now) ELSE <<>>)

\* ---- TaskClient and CLI calls: GET the Status, change the copy, PUT it back
\* the GET of Status i by get_task_status / DaoListClient.get: a missing
\* Status ends the call with the service's error, else the caller holds a copy
Get(op, w, i, p, next) ==
  /\ pc[w] = "idle"
  /\ IF i \in DOMAIN statusTab
     THEN /\ pc' = [pc EXCEPT ![w] = next]
          /\ loc' = [loc EXCEPT ![w] = [id |-> i, snap |-> statusTab[i]]]
          /\ last' = last
     ELSE /\ last' = Result(op, w, i, p, {}, "Err", "NotFound", {})
          /\ UNCHANGED <<pc, loc>>
  /\ UNCHANGED <<statusTab, taskTab, now>>

\* the end of a call that holds a copy: r is what the code made of the copy;
\* an Ok outcome is PUT to the service, which stores the record it is sent
Finish(op, w, at, p, ov, r) ==
  /\ pc[w] = at
  /\ statusTab' = IF r.kind = "Ok" THEN Put(statusTab, loc[w].id, r.rec) ELSE statusTab
  /\ last' = Result(op, w, loc[w].id, p, ov, r.kind, r.err, {loc[w].snap.status})
  /\ pc' = [pc EXCEPT ![w] = "idle"]
  /\ loc' = [loc EXCEPT ![w] = IdleLoc]
  /\ UNCHANGED taskTab

Client_find_task_scan(w) ==
  /\ pc[w] = "idle"
  /\ LET statuses == get_all(statusTab, PENDING) IN
       IF statuses = <<>>
       THEN /\ last' = Result("client.find_task", w, 0, 0, {}, "Err", "NoTask", {})
            /\ UNCHANGED <<pc, loc>>
       ELSE /\ pc' = [pc EXCEPT ![w] = "find_get"]
            /\ loc' = [loc EXCEPT ![w] = [id |-> statuses[1],
                                          snap |-> statusTab[statuses[1]]]]
            /\ last' = last
  /\ UNCHANGED <<statusTab, taskTab, now>>

Client_find_task_get(w) ==
  /\ pc[w] = "find_get"
  /\ LET r == client_find_task(<<loc[w].id>>, taskTab) IN
       last' = Result("client.find_task", w, r.id, 0, {}, r.kind, r.err,
                      {loc[w].snap.status})
  /\ pc' = [pc EXCEPT ![w] = "idle"]
  /\ loc' = [loc EXCEPT ![w] = IdleLoc]
  /\ UNCHANGED <<statusTab, taskTab, now>>

Client_task_start_get(w, i) ==
  /\ Get("client.task_start", w, i, 0, "start_put")

\* the clock may advance between the two now_sh_dt() reads
Client_task_start_put(w, d) ==
  /\ now + d <= MaxClock
  /\ Finish("client.task_start", w, "start_put", 0, {},
            client_task_start(loc[w].snap, now, now + d))
  /\ now' = now + d

Client_task_error_get(w, i) ==
  /\ Get("client.task_error", w, i, 0, "error_put")

Client_task_error_put(w) ==
  /\ Finish("client.task_error", w, "error_put", 0, {},
            client_task_error(loc[w].snap, now))
  /\ now' = now

\* update_progress with a progress the range check rejects: no request is made
Client_update_progress_invalid(w, i, p) ==
  /\ pc[w] = "idle"
  /\ ~client_progress_valid(p)
  /\ last' = Result("client.update_progress", w, i, p, {}, "Err", "InvalidArgument",
                    IF i \in DOMAIN statusTab THEN {statusTab[i].status} ELSE {})
  /\ UNCHANGED <<statusTab, taskTab, now, pc, loc>>

Client_update_progress_get(w, i, p) ==
  /\ client_progress_valid(p)
  /\ Get("client.update_progress", w, i, p, "progress_put")

\* progress and status are the arguments of the call in progress; they are
\* first used here
Client_update_progress_put(w, p, status) ==
  /\ client_progress_valid(p)
  /\ Finish("client.update_progress", w, "progress_put", p, status,
            client_update_progress(loc[w].snap, p, status, now))
  /\ now' = now

Client_task_done_get(w, i) ==
  /\ Get("client.task_done", w, i, 100, "done_put")

Client_task_done_put(w) ==
  /\ Finish("client.task_done", w, "done_put", 100, {COMPLETED},
            client_update_progress(loc[w].snap, 100, {COMPLETED}, now))
  /\ now' = now

\* TaskClient.add_task / cx_dao create_task: POST of a Task; the service
\* stores it under an id that has no Task
Client_add_task(w, i) ==
  /\ pc[w] = "idle"
  /\ i \notin taskTab
  /\ taskTab' = taskTab \cup {i}
  /\ last' = Result("client.add_task", w, i, 0, {}, "Ok", "", {})
  /\ UNCHANGED <<statusTab, now, pc, loc>>

\* cx_dao delete_task: DELETE of the Task record
CxDao_delete_task(w, i) ==
  /\ pc[w] = "idle"
  /\ taskTab' = taskTab \ {i}
  /\ last' = IF i \in taskTab
             THEN Result("cx_dao.delete_task", w, i, 0, {}, "Ok", "", {})
             ELSE Result("cx_dao.delete_task", w, i, 0, {}, "Err", "NotFound", {})
  /\ UNCHANGED <<statusTab, now, pc, loc>>

CxDao_update_status_get(w, i) ==
  /\ Get("cx_dao.update_status", w, i, 0, "status_put")

CxDao_update_status_put(w, status, progress, enabled) ==
  /\ Finish("cx_dao.update_status", w, "status_put", 0, {},
            cx_dao_update_status(loc[w].snap, status, progress, enabled))
  /\ now' = now

\* cx_task enable_task: GET the Status, set enabled and update_time on the
\* copy, then client.update_status(status): TaskClient has no such method, so
\* the command ends in AttributeError and nothing is sent
CxTask_enable_task(w, i, enable) ==
  /\ pc[w] = "idle"
  /\ last' = IF i \in DOMAIN statusTab
             THEN Result("cx_task.enable_task", w, i, 0, {}, "Raise", "AttributeError",
                         {statusTab[i].status})
             ELSE Result("cx_task.enable_task", w, i, 0, {}, "Err", "NotFound", {})
  /\ UNCHANGED <<statusTab, taskTab, now, pc, loc>>

\* ---- the argument sets
StatusArgs == {{}} \cup {{s} : s \in TaskStatus}
StatusCodeArgs == StatusArgs \cup {{4}}
OptProgressArgs == {{}} \cup {{p} : p \in ProgressArgs}
OptBool == {{}, {TRUE}, {FALSE}}

Fixtures(I) ==
  \/ \E i \in I : Fixture_put_task(i)
  \/ \E i \in I, st \in {NOT_STARTED, IN_PROGRESS}, en \in BOOLEAN :
       Fixture_put_status(i, st, en)
  \/ \E i \in I : Fixture_enable(i)

DbCalls(W, I) ==
  \/ \E w \in W : Task_find_task(w)
  \/ \E w \in W, i \in I : Task_task_done(w, i)
  \/ \E w \in W, i \in I : Task_task_error(w, i)
  \/ \E w \in W, i \in I, p \in ProgressArgs : Task_update_progress(w, i, p)
  \/ \E w \in W : TaskDb_find_task(w)
  \/ \E w \in W, i \in I, wk \in WorkerArgs : TaskDb_task_start(w, i, wk)
  \/ \E w \in W, i \in I : TaskDb_task_done(w, i)
  \/ \E w \in W, i \in I : TaskDb_task_error(w, i)
  \/ \E w \in W, i \in I, p \in ProgressArgs : TaskDb_update_progress(w, i, p)

Requests(W, I) ==
  \/ \E w \in W : Client_find_task_scan(w)
  \/ \E w \in W, i \in I : Client_task_start_get(w, i)
  \/ \E w \in W, i \in I : Client_task_error_get(w, i)
  \/ \E w \in W, i \in I, p \in ProgressArgs : Client_update_progress_invalid(w, i, p)
  \/ \E w \in W, i \in I, p \in ProgressArgs : Client_update_progress_get(w, i, p)
  \/ \E w \in W, i \in I : Client_task_done_get(w, i)
  \/ \E w \in W, i \in I : Client_add_task(w, i)
  \/ \E w \in W, i \in I : CxDao_delete_task(w, i)
  \/ \E w \in W, i \in I : CxDao_update_status_get(w, i)
  \/ \E w \in W, i \in I, e \in BOOLEAN : CxTask_enable_task(w, i, e)

Replies(W) ==
  \/ \E w \in W : Client_find_task_get(w)
  \/ \E w \in W, d \in {0, 1} : Client_task_start_put(w, d)
  \/ \E w \in W : Client_task_error_put(w)
  \/ \E w \in W, p \in ProgressArgs, s \in StatusArgs : Client_update_progress_put(w, p, s)
  \/ \E w \in W : Client_task_done_put(w)
  \/ \E w \in W, s \in StatusCodeArgs, p \in OptProgressArgs, e \in OptBool :
       CxDao_update_status_put(w, s, p, e)

\* Callers take turns: a call returns before the next one begins.
Next ==
  \/ Tick
  \/ Fixtures({1})
  \/ DbCalls({"w1"}, {1})
  \/ Requests({"w1"}, {1})
  \/ Replies({"w1"})

Spec == Init /\ [][Next]_vars

\* the progress values the concurrent callers report
RaceProgress == {50, 100}

\* Concurrent callers of the service on one Status: any caller may act
\* between the GET and the PUT of another caller's call.
NextRace ==
  \/ Tick
  \/ \E en \in BOOLEAN : Fixture_put_status(1, NOT_STARTED, en)
  \/ \E w \in Workers : Client_task_start_get(w, 1)
  \/ \E w \in Workers, d \in {0, 1} : Client_task_start_put(w, d)
  \/ \E w \in Workers : Client_task_error_get(w, 1)
  \/ \E w \in Workers : Client_task_error_put(w)
  \/ \E w \in Workers, p \in RaceProgress : Client_update_progress_get(w, 1, p)
  \/ \E w \in Workers, p \in RaceProgress : Client_update_progress_put(w, p, {})
  \/ \E w \in Workers : CxDao_update_status_get(w, 1)
  \/ \E w \in Workers, e \in BOOLEAN : CxDao_update_status_put(w, {}, {}, {e})

SpecRace == Init /\ [][NextRace]_vars

\* Selection among several tasks: workers look for the next task while
\* tasks are created, started, finished, failed, disabled and deleted.
NextSel ==
  \/ Fixtures(Ids)
  \/ \E w \in Workers : Task_find_task(w)
  \/ \E w \in Workers : TaskDb_find_task(w)
  \/ \E w \in Workers : Client_find_task_scan(w)
  \/ \E w \in Workers : Client_find_task_get(w)
  \/ \E i \in Ids : Task_task_done("w1", i)
  \/ \E i \in Ids : Task_task_error("w1", i)
  \/ \E i \in Ids : TaskDb_task_start("w1", i, {})
  \/ \E i \in Ids : CxDao_delete_task("w1", i)
  \/ \E i \in Ids : CxDao_update_status_get("w1", i)
  \/ \E e \in BOOLEAN : CxDao_update_status_put("w1", {}, {}, {e})

SpecSel == Init /\ [][NextSel]_vars

\* ---------------------------------------------------------------- properties
Terminal == {COMPLETED, ERROR}
Active == {NOT_STARTED, IN_PROGRESS}
FindOps == {"task.find_task", "task_db.find_task", "client.find_task"}
DbFindOps == {"task.find_task", "task_db.find_task"}
UpdateOps == {"task.update_progress", "task_db.update_progress", "client.update_progress"}
LifecycleOps ==
  FindOps \cup UpdateOps \cup
  {"task.task_done", "task.task_error",
   "task_db.task_start", "task_db.task_done", "task_db.task_error",
   "client.task_start", "client.task_done", "client.task_error"}
PutPcs == {"start_put", "error_put", "progress_put", "done_put", "status_put"}

\* the ids a selection may return: enabled, and NOT_STARTED or IN_PROGRESS
Eligible(tab) == {i \in DOMAIN tab : tab[i].enabled /\ tab[i].status \in Active}
\* the earliest of them in creation order, 0 when there is none
FirstEligible(tab) ==
  IF Eligible(tab) = {} THEN 0
  ELSE CHOOSE i \in Eligible(tab) : \A j \in Eligible(tab) : i <= j

\* a find_task call returned: r is what it returned
Returned(r) == r.op \in FindOps /\ r.kind \in {"Some", "Ok"}
\* a find_task call returned task r.id and saw its Status as NOT_STARTED
FreshClaim(r) == Returned(r) /\ r.pre = {NOT_STARTED}

\* C1: COMPLETED and ERROR are terminal: no lifecycle operation (start,
\* update_progress with or without override, done, mark_error, claim_next)
\* changes the status or the progress of a Status that is COMPLETED or ERROR.
C1_TerminalIsFinal ==
  [][\A i \in DOMAIN statusTab :
       (statusTab[i].status \in Terminal /\ last'.op \in LifecycleOps)
       => /\ statusTab'[i].status = statusTab[i].status
          /\ statusTab'[i].progress = statusTab[i].progress]_vars

\* C2: no duplicate claims: when a find_task call has returned a task whose
\* Status it saw as NOT_STARTED, the next find_task call to return does not
\* hand the same NOT_STARTED task to another worker.
C2_NoDuplicateClaim ==
  [][(FreshClaim(last) /\ FreshClaim(last') /\ last'.id = last.id)
     => last'.w = last.w]_vars

\* the fields of the copy that the code of a call never assigns, by the
\* request the call makes next
Unassigned(at) ==
  CASE at = "start_put" -> {"enabled", "worker"}
    [] at = "error_put" -> {"progress", "start_time", "enabled", "worker"}
    [] at = "progress_put" -> {"start_time", "enabled", "worker"}
    [] at = "done_put" -> {"start_time", "enabled", "worker"}
    [] at = "status_put" -> {"start_time", "update_time", "worker"}
    [] OTHER -> {}

\* C3: no lost update: the read-change-write of a call is one atomic unit, so
\* the write of a call changes only what the call assigns; what another
\* caller has stored since the call read the Status is not put back to the
\* value the call read.
C3_NoLostUpdate ==
  [][\A w \in Workers :
       (pc[w] \in PutPcs /\ pc'[w] = "idle" /\ last'.kind = "Ok")
       => \A f \in Unassigned(pc[w]) :
            statusTab'[loc[w].id][f] = statusTab[loc[w].id][f]]_vars

\* C4: selection rule: the Status a find_task call selects is the earliest in
\* creation order that is enabled and NOT_STARTED or IN_PROGRESS (so never a
\* disabled, COMPLETED or ERROR one, and an enabled IN_PROGRESS one counts).
C4_SelectionRule ==
  [][/\ (last' # last /\ last'.op \in DbFindOps /\ last'.kind = "Some")
        => last'.id = FirstEligible(statusTab)
     /\ \A w \in Workers :
          (pc[w] = "idle" /\ pc'[w] = "find_get")
          => loc'[w].id = FirstEligible(statusTab)]_vars

\* C5: every Status record has 0 <= progress <= 100 in every reachable state,
\* whatever calls were made, rejected calls with out-of-range progress included.
C5_ProgressInRange ==
  \A i \in DOMAIN statusTab :
    0 <= statusTab[i].progress /\ statusTab[i].progress <= 100

\* C5 witness: an update_progress call with a progress outside 0..100 has been
\* rejected on a Status that carries a progress reported before.
C5_Witness ==
  /\ last.op \in UpdateOps
  /\ ~(0 <= last.p /\ last.p <= 100)
  /\ last.kind # "Ok"
  /\ last.id \in DOMAIN statusTab
  /\ statusTab[last.id].progress = 50

\* C6: for a progress in 0..100, update_progress on an existing Status
\* succeeds exactly when the Status is NOT_STARTED or IN_PROGRESS, and fails
\* with InvalidState when it is COMPLETED or ERROR.
C6_UpdateIffActive ==
  (last.op \in UpdateOps /\ last.ov = {} /\ 0 <= last.p /\ last.p <= 100 /\ last.pre # {})
  => /\ (last.kind = "Ok") <=> (last.pre \subseteq Active)
     /\ (last.pre \subseteq Terminal) => last.err = "InvalidState"

\* C7: for a progress outside 0..100, update_progress on an existing Status
\* fails with InvalidArgument whatever the status, COMPLETED and ERROR included.
C7_RangeErrorFirst ==
  (last.op \in UpdateOps /\ ~(0 <= last.p /\ last.p <= 100) /\ last.pre # {})
  => last.err = "InvalidArgument"

\* C8: when a find_task call returns a task whose Status was NOT_STARTED, that
\* Status is IN_PROGRESS in the store as the call returns.
C8_ClaimStarts ==
  [][(last' # last /\ FreshClaim(last'))
     => statusTab'[last'.id].status = IN_PROGRESS]_vars

\* C9: find_task gives the empty result exactly when no Status is eligible
\* (none is enabled and NOT_STARTED or IN_PROGRESS).
C9_EmptyIffNoneEligible ==
  [][/\ (last' # last /\ last'.op \in DbFindOps)
        => ((last'.kind = "Null") <=> (FirstEligible(statusTab) = 0))
     /\ (last' # last /\ last'.op = "client.find_task" /\ last'.err = "NoTask")
        => FirstEligible(statusTab) = 0
     /\ \A w \in Workers :
          (pc[w] = "idle" /\ pc'[w] = "find_get") => FirstEligible(statusTab) # 0]_vars

\* C10: when the first eligible Status has no Task record, find_task reports
\* the missing Task of that Status: it neither gives the empty result nor goes
\* on to a later Status.
C10_MissingTaskReported ==
  [][/\ (last' # last /\ last'.op \in DbFindOps
         /\ FirstEligible(statusTab) # 0 /\ FirstEligible(statusTab) \notin taskTab)
        => (last'.kind = "Raise" /\ last'.id = FirstEligible(statusTab))
     /\ (FirstEligible(statusTab) # 0 /\ FirstEligible(statusTab) \notin taskTab)
        => /\ ~(last' # last /\ last'.op = "client.find_task" /\ last'.err = "NoTask")
           /\ \A w \in Workers :
                (pc[w] = "idle" /\ pc'[w] = "find_get")
                => loc'[w].id = FirstEligible(statusTab)
     /\ \A w \in Workers :
          (pc[w] = "find_get" /\ pc'[w] = "idle" /\ loc[w].id \notin taskTab)
          => (last'.kind = "Err" /\ last'.err = "NotFound" /\ last'.id = loc[w].id)]_vars

StartOps == {"task_db.task_start", "client.task_start"}

\* C11: start on a NOT_STARTED Status succeeds and leaves it IN_PROGRESS with
\* start_time equal to update_time; start on a Status in any other status
\* fails with InvalidState.
C11_StartContract ==
  (last.op \in StartOps /\ last.pre # {})
  => /\ (last.pre = {NOT_STARTED})
        => /\ last.kind = "Ok"
           /\ statusTab[last.id].status = IN_PROGRESS
           /\ statusTab[last.id].start_time # {}
           /\ statusTab[last.id].start_time = statusTab[last.id].update_time
     /\ (last.pre # {NOT_STARTED})
        => (last.kind # "Ok" /\ last.err = "InvalidState")

ErrorOps == {"task.task_error", "task_db.task_error", "client.task_error"}

\* C12: mark_error succeeds exactly from NOT_STARTED or IN_PROGRESS, and
\* fails with InvalidState on a Status that is already COMPLETED or ERROR.
C12_MarkErrorContract ==
  (last.op \in ErrorOps /\ last.pre # {})
  => /\ (last.kind = "Ok") <=> (last.pre \subseteq Active)
     /\ (last.pre \subseteq Terminal) => last.err = "InvalidState"

\* C13: the ids that have a Status are the ids that have a Task: from a store
\* where the two sets are equal, creating a Task leaves them equal with the
\* new Status at (NOT_STARTED, progress 0, enabled), and deleting a task
\* leaves them equal with both records gone.
C13_OneStatusPerTask ==
  [][(DOMAIN statusTab = taskTab /\ last' # last /\ last'.kind = "Ok")
     => /\ (last'.op = "client.add_task")
           => /\ last'.id \in taskTab'
              /\ DOMAIN statusTab' = taskTab'
              /\ statusTab'[last'.id].status = NOT_STARTED
              /\ statusTab'[last'.id].progress = 0
              /\ statusTab'[last'.id].enabled
        /\ (last'.op = "cx_dao.delete_task")
           => /\ last'.id \notin taskTab'
              /\ DOMAIN statusTab' = taskTab']_vars

\* The end-to-end scenario of test_multiple_tasks and every variation of it:
\* the fixtures create, start and enable the records of tasks 1..NumOrder
\* while one worker looks for the next task and completes tasks.
NextOrder ==
  \/ Fixtures(OrderIds)
  \/ Task_find_task("w1")
  \/ \E i \in OrderIds : Task_task_done("w1", i)

SpecOrder == Init /\ [][NextOrder]_vars

\* Status i of the store has status st and enabled flag en
Has(tab, i, st, en) ==
  i \in DOMAIN tab /\ tab[i].status = st /\ tab[i].enabled = en

\* the stages of the scenario: tasks 1, 2, 3 created, 2 set to IN_PROGRESS
\* and 3 disabled; then 1 done; then 3 enabled; then 2 done
Stage1(tab, tasks) ==
  /\ {1, 2, 3} \subseteq tasks
  /\ Has(tab, 1, NOT_STARTED, TRUE)
  /\ Has(tab, 2, IN_PROGRESS, TRUE)
  /\ Has(tab, 3, NOT_STARTED, FALSE)
Stage2(tab, tasks) ==
  /\ {1, 2, 3} \subseteq tasks
  /\ Has(tab, 1, COMPLETED, TRUE)
  /\ Has(tab, 2, IN_PROGRESS, TRUE)
  /\ Has(tab, 3, NOT_STARTED, FALSE)
Stage2Enabled(tab, tasks) ==
  /\ {1, 2, 3} \subseteq tasks
  /\ Has(tab, 1, COMPLETED, TRUE)
  /\ Has(tab, 2, IN_PROGRESS, TRUE)
  /\ Has(tab, 3, NOT_STARTED, TRUE)
Stage3(tab, tasks) ==
  /\ {1, 2, 3} \subseteq tasks
  /\ Has(tab, 1, COMPLETED, TRUE)
  /\ Has(tab, 2, COMPLETED, TRUE)
  /\ Has(tab, 3, NOT_STARTED, TRUE)

\* C14: end-to-end order with TaskDb of task.py: with tasks 1, 2, 3 created,
\* 2 IN_PROGRESS and 3 disabled, find_task returns 1; done(1) completes 1 and
\* find_task then returns 2; after 3 is enabled, done(2) completes 2 and
\* find_task then returns 3.
C14_EndToEndOrder ==
  [][/\ (last' # last /\ last'.op = "task.find_task")
        => /\ Stage1(statusTab, taskTab) => (last'.kind = "Some" /\ last'.id = 1)
           /\ Stage2(statusTab, taskTab) => (last'.kind = "Some" /\ last'.id = 2)
           /\ Stage3(statusTab, taskTab) => (last'.kind = "Some" /\ last'.id = 3)
     /\ (last' # last /\ last'.op = "task.task_done" /\ last'.id = 1
           /\ Stage1(statusTab, taskTab))
        => Stage2(statusTab', taskTab')
     /\ (last' = last /\ Stage2(statusTab, taskTab) /\ statusTab'[3].enabled)
        => Stage2Enabled(statusTab', taskTab')
     /\ (last' # last /\ last'.op = "task.task_done" /\ last'.id = 2
           /\ Stage2Enabled(statusTab, taskTab))
        => Stage3(statusTab', taskTab')]_vars

\* C14 witness: the scenario has run to its end: tasks 1 and 2 are completed,
\* 3 is enabled and NOT_STARTED, and find_task has just returned task 3.
C14_Witness ==
  /\ Stage3(statusTab, taskTab)
  /\ last.op = "task.find_task"
  /\ last.kind = "Some"
  /\ last.id = 3

\* Concurrent callers of every kind on one Status: the callers of the service
\* as in NextRace, TaskDb callers whose calls run to completion in between,
\* and the enable_task command.
NextMixed ==
  \/ NextRace
  \/ \E w \in Workers : TaskDb_task_start(w, 1, {})
  \/ \E w \in Workers, p \in RaceProgress : Task_update_progress(w, 1, p)
  \/ \E w \in Workers : Task_task_error(w, 1)
  \/ \E w \in Workers, e \in BOOLEAN : CxTask_enable_task(w, 1, e)

SpecMixed == Init /\ [][NextMixed]_vars

\* C15: whenever a Status has both start_time and update_time, update_time is
\* not earlier than start_time, whatever the callers do and however their
\* calls interleave.
C15_UpdateNotBeforeStart ==
  \A i \in DOMAIN statusTab :
    \A s \in statusTab[i].start_time, u \in statusTab[i].update_time : u >= s

\* C15 witness: a Status started at 0 and updated at 1 by a successful call,
\* while another caller still holds an older copy of it.
C15_Witness ==
  /\ 1 \in DOMAIN statusTab
  /\ statusTab[1].start_time = {0}
  /\ statusTab[1].update_time = {1}
  /\ last.kind = "Ok"
  /\ \E w \in Workers : pc[w] # "idle" /\ loc[w].snap # statusTab[1]

\* C16: start_time is written at most once: once a Status has a start_time,
\* no later step of any caller changes it.
C16_StartTimeWrittenOnce ==
  [][\A i \in DOMAIN statusTab :
       statusTab[i].start_time # {}
       => statusTab'[i].start_time = statusTab[i].start_time]_vars

\* the calls that take the id of a Status, and the kinds of an explicit
\* result (a value the call returns, as opposed to an exception it raises)
ByIdOps ==
  UpdateOps \cup StartOps \cup ErrorOps \cup
  {"task.task_done", "task_db.task_done", "client.task_done", "cx_task.enable_task"}
Explicit == {"Ok", "Err", "Some", "Null"}

\* C17: a lifecycle operation called with an id that has no Status (and a
\* progress in 0..100, where it takes one) returns a NotFound error as an
\* explicit result, and creates no record for that id.
C17_UnknownIdNotFound ==
  [][(last' # last /\ last'.op \in ByIdOps /\ last'.id \notin DOMAIN statusTab
        /\ last'.pre = {} /\ 0 <= last'.p /\ last'.p <= 100)
     => /\ last'.kind \in Explicit
        /\ last'.kind # "Ok"
        /\ last'.err = "NotFound"
        /\ last'.id \notin DOMAIN statusTab']_vars

\* C18: a successful update_progress with a progress below 100 and no status
\* override on a NOT_STARTED Status leaves it IN_PROGRESS with that progress.
C18_FirstReportStarts ==
  (last.op \in UpdateOps /\ last.kind = "Ok" /\ last.ov = {} /\ last.p < 100
     /\ last.pre = {NOT_STARTED})
  => /\ statusTab[last.id].status = IN_PROGRESS
     /\ statusTab[last.id].progress = last.p

\* C19: update_progress with progress 100 and no status override on a
\* NOT_STARTED or IN_PROGRESS Status succeeds and leaves it COMPLETED with
\* progress 100; a later update_progress (progress in 0..100) on the
\* COMPLETED Status fails with InvalidState.
C19_HundredCompletes ==
  /\ (last.op \in UpdateOps /\ last.ov = {} /\ last.p = 100
        /\ last.pre # {} /\ last.pre \subseteq Active)
     => /\ last.kind = "Ok"
        /\ statusTab[last.id].status = COMPLETED
        /\ statusTab[last.id].progress = 100
  /\ (last.op \in UpdateOps /\ 0 <= last.p /\ last.p <= 100
        /\ last.pre = {COMPLETED})
     => /\ last.kind # "Ok"
        /\ last.err = "InvalidState"
        /\ statusTab[last.id].status = COMPLETED
        /\ statusTab[last.id].progress = 100

\* C20: update_progress with a status override on a NOT_STARTED or
\* IN_PROGRESS Status succeeds for every progress in 0..100 and leaves the
\* Status with the override as its status and the progress as given: the
\* override wins over both automatic promotions.
C20_OverrideWins ==
  (last.op \in UpdateOps /\ last.ov # {} /\ 0 <= last.p /\ last.p <= 100
     /\ last.pre # {} /\ last.pre \subseteq Active)
  => /\ last.kind = "Ok"
     /\ {statusTab[last.id].status} = last.ov
     /\ statusTab[last.id].progress = last.p

\* C20 witness: update_progress with progress 50 and override ERROR on a
\* NOT_STARTED Status has stored ERROR.
C20_Witness ==
  /\ last.op = "client.update_progress"
  /\ last.ov = {ERROR}
  /\ last.p = 50
  /\ last.pre = {NOT_STARTED}
  /\ last.kind = "Ok"
  /\ statusTab[last.id].status = ERROR

\* C21: a successful start(id, worker) leaves the Status with progress 0 and
\* with the given worker. TaskClient.task_start never reads its worker
\* parameter, so its step stands for the call with any worker argument.
C21_StartSetsProgressAndWorker ==
  [][\A w \in Workers, worker \in WorkerArgs :
       /\ \A i \in Ids :
            (TaskDb_task_start(w, i, worker) /\ last'.kind = "Ok")
            => /\ statusTab'[i].progress = 0
               /\ statusTab'[i].worker = worker
       /\ ((\E d \in {0, 1} : Client_task_start_put(w, d)) /\ last'.kind = "Ok")
          => /\ statusTab'[last'.id].progress = 0
             /\ statusTab'[last'.id].worker = worker]_vars

\* C22: every Status that is IN_PROGRESS, COMPLETED or ERROR has its
\* start_time set: from a store where that holds, each lifecycle operation
\* that returns leaves a store where it holds.
C22_StartedHasStartTime ==
  [][((\A i \in DOMAIN statusTab :
         statusTab[i].status # NOT_STARTED => statusTab[i].start_time # {})
      /\ last' # last /\ last'.op \in LifecycleOps)
     => \A i \in DOMAIN statusTab' :
          statusTab'[i].status # NOT_STARTED => statusTab'[i].start_time # {}]_vars

DoneOps == {"task.task_done", "task_db.task_done", "client.task_done"}

\* C23: done(id) that returns on a NOT_STARTED or IN_PROGRESS Status leaves it
\* COMPLETED with progress 100, and on a COMPLETED or ERROR Status it fails
\* and leaves the store as it was.
C23_DoneAsUpdateProgress ==
  [][(last' # last /\ last'.op \in DoneOps /\ last'.pre # {})
     => /\ last'.pre \subseteq Active
           => /\ last'.kind = "Ok"
              /\ statusTab'[last'.id].status = COMPLETED
              /\ statusTab'[last'.id].progress = 100
        /\ last'.pre \subseteq Terminal
           => /\ last'.kind \in {"Err", "Raise"}
              /\ statusTab' = statusTab]_vars

\* C24: a successful mark_error(id) on a NOT_STARTED or IN_PROGRESS Status
\* stores that Status with status ERROR and update_time now and every other
\* field as it was, and in the store it leaves no find_task returns id.
C24_MarkErrorFrame ==
  [][(last' # last /\ last'.op \in ErrorOps /\ last'.kind = "Ok"
      /\ last'.pre # {} /\ last'.pre \subseteq Active)
     => /\ statusTab'[last'.id] =
             [statusTab[last'.id] EXCEPT !.status = ERROR, !.update_time = {now'}]
        /\ find_task(statusTab', taskTab').id # last'.id
        /\ db_find_task(statusTab', taskTab').id # last'.id
        /\ \A k \in 1..Len(get_all(statusTab', PENDING)) :
             get_all(statusTab', PENDING)[k] # last'.id]_vars

\* a started Status with progress 50 was marked as failed and kept both
C24_Witness ==
  /\ last.op \in ErrorOps /\ last.kind = "Ok" /\ last.pre = {IN_PROGRESS}
  /\ last.id \in DOMAIN statusTab
  /\ statusTab[last.id].status = ERROR
  /\ statusTab[last.id].progress = 50
  /\ statusTab[last.id].start_time # {}
  /\ statusTab[last.id].enabled
  /\ last.id \in taskTab

\* C25: set_enabled(id, e) on a stored Status succeeds whatever its status,
\* stores e as enabled and leaves status, progress and start_time as they
\* were, and a COMPLETED or ERROR Status is not selectable afterwards. The
\* enable command of cx_task and update_status --enabled of cx_dao are the
\* two forms of the call.
C25_SetEnabledFrame ==
  [][\A w \in Workers, e \in BOOLEAN :
       /\ \A i \in Ids :
            (CxTask_enable_task(w, i, e) /\ i \in DOMAIN statusTab)
            => /\ last'.kind = "Ok"
               /\ statusTab'[i].enabled = e
               /\ statusTab'[i].status = statusTab[i].status
               /\ statusTab'[i].progress = statusTab[i].progress
               /\ statusTab'[i].start_time = statusTab[i].start_time
               /\ statusTab[i].status \in Terminal => i \notin Eligible(statusTab')
       /\ CxDao_update_status_put(w, {}, {}, {e})
          => /\ last'.kind = "Ok"
             /\ statusTab'[last'.id].enabled = e
             /\ statusTab'[last'.id].status = statusTab[last'.id].status
             /\ statusTab'[last'.id].progress = statusTab[last'.id].progress
             /\ statusTab'[last'.id].start_time = statusTab[last'.id].start_time
             /\ statusTab[last'.id].status \in Terminal
                => last'.id \notin Eligible(statusTab')]_vars

\* the status changes of the lifecycle: from, to
Transitions ==
  {<<NOT_STARTED, IN_PROGRESS>>,
   <<NOT_STARTED, COMPLETED>>, <<IN_PROGRESS, COMPLETED>>,
   <<NOT_STARTED, ERROR>>, <<IN_PROGRESS, ERROR>>}

\* C26: a lifecycle operation that returns leaves the status of every Status
\* as it was or moves it along one of the transitions NOT_STARTED to
\* IN_PROGRESS, NOT_STARTED or IN_PROGRESS to COMPLETED, NOT_STARTED or
\* IN_PROGRESS to ERROR; a move to COMPLETED comes with progress 100.
C26_OnlyLifecycleTransitions ==
  [][(last' # last /\ last'.op \in LifecycleOps)
     => \A i \in DOMAIN statusTab :
          \/ statusTab'[i].status = statusTab[i].status
          \/ /\ <<statusTab[i].status, statusTab'[i].status>> \in Transitions
             /\ statusTab'[i].status = COMPLETED => statusTab'[i].progress = 100]_vars

\* C27: a Status that is COMPLETED has progress 100.
C27_CompletedIsHundred ==
  \A i \in DOMAIN statusTab :
    statusTab[i].status = COMPLETED => statusTab[i].progress = 100

\* ---- one worker's loop over TaskDb of task.py: find_task, then task_done
\* on the task returned, again and again
\* the loop begins once the fixtures are in place and every Status has its
\* Task; from then on the worker is the only one that acts
Worker_start(w) ==
  /\ Quiet
  /\ \A i \in DOMAIN statusTab : i \in taskTab
  /\ pc' = [pc EXCEPT ![w] = "loop_find"]
  /\ UNCHANGED <<statusTab, taskTab, now, loc, last>>

\* db.find_task(): Some sends the worker on to task_done, Null to the next
\* find_task
Worker_find_task(w) ==
  /\ pc[w] = "loop_find"
  /\ LET r == find_task(statusTab, taskTab) IN
       /\ last' = Result("task.find_task", w, r.id, 0, {}, r.kind, r.err,
                         IF r.id = 0 THEN {} ELSE {statusTab[r.id].status})
       /\ IF r.kind = "Some"
          THEN /\ pc' = [pc EXCEPT ![w] = "loop_done"]
               /\ loc' = [loc EXCEPT ![w] = [id |-> r.id, snap |-> statusTab[r.id]]]
          ELSE UNCHANGED <<pc, loc>>
  /\ UNCHANGED <<statusTab, taskTab, now>>

\* db.task_done(task.id) on the task that find_task returned
Worker_task_done(w) ==
  /\ pc[w] = "loop_done"
  /\ LET i == loc[w].id
         r == task_done(statusTab[i], now)
     IN /\ statusTab' = IF r.kind = "Ok" THEN Put(statusTab, i, r.rec) ELSE statusTab
        /\ last' = Result("task.task_done", w, i, 100, {}, r.kind, r.err,
                          {statusTab[i].status})
  /\ pc' = [pc EXCEPT ![w] = "loop_find"]
  /\ loc' = [loc EXCEPT ![w] = IdleLoc]
  /\ UNCHANGED <<taskTab, now>>

\* The fixtures set up tasks 1..NumOrder, some of them started, disabled or
\* failed; then the worker loop runs alone.
NextLoop ==
  \/ Fixtures(OrderIds)
  \/ \E i \in OrderIds : Task_task_error("w1", i)
  \/ Worker_start("w1")
  \/ Worker_find_task("w1")
  \/ Worker_task_done("w1")

\* the loop is sequential code whose calls return: each of its steps is taken
\* when it is the worker's next step
SpecLoop ==
  /\ Init
  /\ [][NextLoop]_vars
  /\ WF_vars(Worker_find_task("w1"))
  /\ WF_vars(Worker_task_done("w1"))

LoopRunning == pc["w1"] \in {"loop_find", "loop_done"}

\* C28: while the worker loop runs, each task_done completes the earliest
\* eligible task in creation order and changes no other Status, a disabled
\* Status is never changed, every enabled Status that is NOT_STARTED or
\* IN_PROGRESS is eventually COMPLETED, and eventually find_task returns Null
\* and keeps returning it.
C28_WorkerLoopProgress ==
  /\ [][LoopRunning
        => /\ \A i \in DOMAIN statusTab :
                statusTab'[i] # statusTab[i]
                => /\ i = FirstEligible(statusTab)
                   /\ statusTab'[i].status = COMPLETED
                   /\ statusTab'[i].progress = 100
           /\ DOMAIN statusTab' = DOMAIN statusTab]_vars
  /\ \A i \in OrderIds :
       (LoopRunning /\ i \in Eligible(statusTab))
       ~> (i \in DOMAIN statusTab /\ statusTab[i].status = COMPLETED)
  /\ LoopRunning ~> [](last.op = "task.find_task" /\ last.kind = "Null")

\* the loop completed tasks 1 and 2, left the disabled task 3 and the failed
\* one alone, and find_task then returned Null
C28_Witness ==
  /\ LoopRunning
  /\ last.op = "task.find_task" /\ last.kind = "Null"
  /\ DOMAIN statusTab = OrderIds
  /\ statusTab[1].status = COMPLETED /\ statusTab[1].start_time # {}
  /\ statusTab[2].status = COMPLETED
  /\ statusTab[3].status = NOT_STARTED /\ ~statusTab[3].enabled

\* C29: an update_progress, start or mark_error call that returns an error
\* (progress out of range, operation illegal for the current status, unknown
\* id) leaves every Status record of the store as it was.
C29_FailedCallWritesNothing ==
  [][(/\ last' # last
      /\ last'.op \in UpdateOps \cup StartOps \cup ErrorOps
      /\ last'.kind \in {"Err", "Raise"})
     => statusTab' = statusTab]_vars

\* update_progress was refused for its progress on a started Status that
\* stands at 50
C29_Witness ==
  /\ last.op \in UpdateOps /\ last.kind \in {"Err", "Raise"}
  /\ last.err = "InvalidArgument" /\ last.p = 101
  /\ last.id \in DOMAIN statusTab
  /\ statusTab[last.id].status = IN_PROGRESS
  /\ statusTab[last.id].progress = 50

\* C30: on each of the status codes 0..3 the gates `status < COMPLETED`,
\* `not status >= COMPLETED` and `not status > IN_PROGRESS` hold exactly for
\* NOT_STARTED and IN_PROGRESS, and on every stored Status and every progress
\* argument the update_progress of task.py and that of task_db.py accept or
\* refuse alike and give the same status and progress.
C30_GatesAgree ==
  /\ \A st \in TaskStatus :
       /\ (st < COMPLETED) <=> (st \in Active)
       /\ (~(st >= COMPLETED)) <=> (st \in Active)
       /\ (~(st > IN_PROGRESS)) <=> (st \in Active)
  /\ \A i \in DOMAIN statusTab, p \in ProgressArgs :
       LET a == update_progress(statusTab[i], p, now)
           b == db_update_progress(statusTab[i], p, now)
       IN /\ a.kind = b.kind
          /\ a.kind = "Ok" <=> (statusTab[i].status \in Active /\ 0 <= p /\ p <= 100)
          /\ a.rec.status = b.rec.status
          /\ a.rec.progress = b.rec.progress

\* update_progress of task_db.py refused a report on a failed Status, as that
\* of task.py does on the same record
C30_Witness ==
  /\ last.op = "task_db.update_progress" /\ last.kind = "Raise"
  /\ last.err = "InvalidState" /\ last.p = 50
  /\ last.id \in DOMAIN statusTab
  /\ statusTab[last.id].status = ERROR
  /\ update_progress(statusTab[last.id], 50, now).err = "InvalidState"

====
